---- MODULE Spec2Model ----
(***************************************************************************)
(* Model of the focus-tracking engine of track-and-improve                 *)
(* (src/src/process_tracker.rs): the ProcessTracker ledger, its update()   *)
(* reconciliation and its read accessor, driven by a host clock and by the  *)
(* results of the selected WindowDetector.                                 *)
(*                                                                         *)
(* Time is in seconds.  Option<T> is modelled as a tuple: <<>> is None and  *)
(* <<x>> is Some(x).                                                        *)
(***************************************************************************)
EXTENDS Integers, FiniteSets, Sequences, TLC

\* ------------------------------------------------------------------ bounds
\* Granularity of the host clock between two observations, in seconds.
TickSecs == 10
\* The host clock is observed in 0 .. MaxTicks * TickSecs.
MaxTicks == 2
\* Number of update() calls explored.
MaxPolls == 3

MaxClock == MaxTicks * TickSecs

\* ------------------------------------------------------------ value types
None == <<>>
Some(x) == <<x>>

\* Window classes and titles the desktop can report.
Classes == {"Editor", "Browser"}
Titles == {"main.rs", "README"}

\* The WindowInfo built by X11Detector::get_active_window (gdbus branch):
\* every state flag is false and every optional field is None.
X11Window(class, title) ==
    [id |-> class, title |-> title, class |-> class, pid |-> Some(1),
     is_minimized |-> FALSE, is_maximized |-> FALSE, is_fullscreen |-> FALSE,
     workspace |-> None, monitor |-> None,
     is_urgent |-> FALSE, is_skip_taskbar |-> FALSE,
     app_id |-> None, app_name |-> None, stable_sequence |-> None]

\* The WindowInfo built by WaylandDetector::get_active_window: the flags and
\* optional fields are taken from the JSON answer of the shell.  `flagged`
\* selects between an answer with every flag false / every optional field
\* null and an answer with the flags set and the fields present.
WaylandWindow(class, title, flagged) ==
    [id |-> class, title |-> title, class |-> class, pid |-> Some(1),
     is_minimized |-> FALSE, is_maximized |-> flagged, is_fullscreen |-> flagged,
     workspace |-> IF flagged THEN Some(1) ELSE None,
     monitor |-> IF flagged THEN Some(0) ELSE None,
     is_urgent |-> flagged, is_skip_taskbar |-> FALSE,
     app_id |-> IF flagged THEN Some(class) ELSE None,
     app_name |-> IF flagged THEN Some(class) ELSE None,
     stable_sequence |-> IF flagged THEN Some(7) ELSE None]

\* Results of WindowDetector::get_active_window(): Result<Option<WindowInfo>>.
DetErr == [tag |-> "Err"]
DetNone == [tag |-> "None"]
DetSome(w) == [tag |-> "Some", window |-> w]

\* What a poll of the given detector variant can return.  The trait allows
\* Err; both implementations answer Ok(None) or Ok(Some(window)).
DetectorResults(variant) ==
    {DetErr, DetNone} \cup
    (IF variant = "X11"
     THEN {DetSome(X11Window(c, t)) : c \in Classes, t \in Titles}
     ELSE {DetSome(WaylandWindow(c, t, f)) : c \in Classes, t \in Titles, f \in BOOLEAN})

\* ------------------------------------------------- text and processes
\* Text is modelled as a sequence of tokens in which every delimiter the
\* code splits on is a token of its own.
Apos == "'"
Pipe == "|"
Quote == "\""
Space == " "
Newline == "\n"

\* str::split(delim): the segments between the occurrences of delim.
RECURSIVE Split(_, _)
Split(text, delim) ==
    IF \A i \in 1..Len(text) : text[i] # delim
    THEN <<text>>
    ELSE LET i == CHOOSE j \in 1..Len(text) :
                      text[j] = delim /\ \A m \in 1..(j - 1) : text[m] # delim
         IN  <<SubSeq(text, 1, i - 1)>> \o Split(SubSeq(text, i + 1, Len(text)), delim)

\* Iterator::nth(n), counted from 0.
Nth(seq, n) == IF Len(seq) > n THEN Some(seq[n + 1]) ELSE None

\* str::split_whitespace(): the words between runs of whitespace.
SplitWhitespace(text) ==
    LET IsWord(t) == t \notin {Space, Newline} IN SelectSeq(text, IsWord)

\* Iterator::last().
Last(seq) == IF seq = <<>> THEN None ELSE Some(seq[Len(seq)])

\* to_string() of a segment: "" when it is empty, its token when it is one.
Text(segment) ==
    IF segment = <<>> THEN "" ELSE IF Len(segment) = 1 THEN segment[1] ELSE segment

\* str::trim() on the texts that occur.
Padded == [t \in {" main.rs "} |-> "main.rs"]
Trim(t) == IF t \in DOMAIN Padded THEN Padded[t] ELSE t

\* str::parse::<i32>() on the texts that occur: Some(n), or None for Err.
Numerals == [t \in {"4242"} |-> 4242]
ParseI32(t) == IF t \in DOMAIN Numerals THEN Some(Numerals[t]) ELSE None

\* str::contains(needle) on a line: one of its tokens holds the needle.
Holds == {<<"WM_NAME(STRING) = ", "WM_NAME">>, <<"_NET_WM_NAME(UTF8_STRING) = ", "WM_NAME">>,
          <<"WM_CLASS(STRING) = ", "WM_CLASS">>}
Contains(line, needle) == \E i \in 1..Len(line) : <<line[i], needle>> \in Holds

\* Iterator::find over the lines of a text.
FindLine(lines, needle) ==
    IF \E i \in 1..Len(lines) : Contains(lines[i], needle)
    THEN Some(lines[CHOOSE i \in 1..Len(lines) :
                        /\ Contains(lines[i], needle)
                        /\ \A m \in 1..(i - 1) : ~Contains(lines[m], needle)])
    ELSE None

\* The result of Command::output(): the process could not be spawned, or it
\* exited with a status and a standard output (valid UTF-8 or not).
SpawnErr == [kind |-> "SpawnErr"]
Exited(success, utf8, text) ==
    [kind |-> "Exited", success |-> success, utf8 |-> utf8, text |-> text]
NotRun == [kind |-> "NotRun"]

\* The text of an output the detectors go on to parse: the command ran,
\* status.success() holds and String::from_utf8 succeeds; None otherwise.
Decoded(output) ==
    IF output.kind = "Exited" /\ output.success /\ output.utf8
    THEN Some(output.text) ELSE None

\* ------------------------------------------------------- X11Detector
\* The gdbus strategy of X11Detector::get_active_window: the answer between
\* the first two apostrophes is class|title|pid.
X11FromGdbus(output) ==
    LET text == Decoded(output)
        data_str == IF text = None THEN None ELSE Nth(Split(text[1], Apos), 1)
        parts == IF data_str = None \/ data_str = Some(<<>>)
                 THEN <<>> ELSE Split(data_str[1], Pipe)
    IN  IF Len(parts) >= 3 /\ ParseI32(Text(parts[3])) # None
        THEN Some([X11Window(Text(parts[1]), Text(parts[2]))
                      EXCEPT !.pid = ParseI32(Text(parts[3]))])
        ELSE None

\* The WindowInfo of the xprop strategy.
XpropWindow(window_id, title, class) ==
    [id |-> window_id, title |-> title, class |-> class, pid |-> None,
     is_minimized |-> FALSE, is_maximized |-> FALSE, is_fullscreen |-> FALSE,
     workspace |-> None, monitor |-> None,
     is_urgent |-> FALSE, is_skip_taskbar |-> FALSE,
     app_id |-> None, app_name |-> None, stable_sequence |-> None]

\* The title the xprop strategy reads: the text between the first two quotes
\* of the first line that mentions WM_NAME, trimmed; "" when there is none.
XpropTitle(lines) ==
    LET line == FindLine(lines, "WM_NAME")
        quoted == IF line = None THEN None ELSE Nth(Split(line[1], Quote), 1)
    IN  IF quoted = None THEN "" ELSE Trim(Text(quoted[1]))

\* The class the xprop strategy reads: the second quoted text of the first
\* line that mentions WM_CLASS, trimmed; "" when there is none.
XpropClass(lines) ==
    LET line == FindLine(lines, "WM_CLASS")
        parts == IF line = None THEN <<>> ELSE Split(line[1], Quote)
    IN  IF Len(parts) >= 4 THEN Trim(Text(parts[4])) ELSE ""

\* The window id xprop -root _NET_ACTIVE_WINDOW answers: its last word.
XpropWindowId(output) ==
    LET text == Decoded(output)
    IN  IF text = None THEN None ELSE Last(SplitWhitespace(text[1]))

\* xprop -id <window_id>: a window whenever the output can be decoded.
X11FromXpropId(window_id, output) ==
    LET text == Decoded(output)
    IN  IF text = None THEN None
        ELSE LET lines == Split(text[1], Newline)
             IN  Some(XpropWindow(window_id, XpropTitle(lines), XpropClass(lines)))

\* Mutant of X11GetActiveWindow: the xprop strategy is tried first and
\* gdbus is the fallback.
X11GetActiveWindow_XpropFirst(cmds) ==
    LET by_gdbus == X11FromGdbus(cmds.gdbus)
        window_id == XpropWindowId(cmds.xprop_root)
        by_xprop == IF window_id = None THEN None
                    ELSE X11FromXpropId(window_id[1], cmds.xprop_id)
    IN  IF by_xprop # None
        THEN [result |-> DetSome(by_xprop[1]),
              ran |-> [gdbus |-> NotRun, xprop_root |-> cmds.xprop_root,
                       xprop_id |-> cmds.xprop_id]]
        ELSE [result |-> IF by_gdbus = None THEN DetNone ELSE DetSome(by_gdbus[1]),
              ran |-> [gdbus |-> cmds.gdbus, xprop_root |-> cmds.xprop_root,
                       xprop_id |-> IF window_id = None THEN NotRun ELSE cmds.xprop_id]]

\* X11Detector::get_active_window on a desktop that would answer the three
\* commands as cmds says: the result, and the outputs of the commands that
\* were run (NotRun for a command the chain did not reach).
X11GetActiveWindow(cmds) ==
    LET by_gdbus == X11FromGdbus(cmds.gdbus)
        window_id == XpropWindowId(cmds.xprop_root)
        by_xprop == IF window_id = None THEN None
                    ELSE X11FromXpropId(window_id[1], cmds.xprop_id)
    IN  IF by_gdbus # None
        THEN [result |-> DetSome(by_gdbus[1]),
              ran |-> [gdbus |-> cmds.gdbus, xprop_root |-> NotRun, xprop_id |-> NotRun]]
        ELSE IF window_id = None
        THEN [result |-> DetNone,
              ran |-> [gdbus |-> cmds.gdbus, xprop_root |-> cmds.xprop_root,
                       xprop_id |-> NotRun]]
        ELSE [result |-> IF by_xprop = None THEN DetNone ELSE DetSome(by_xprop[1]),
              ran |-> [gdbus |-> cmds.gdbus, xprop_root |-> cmds.xprop_root,
                       xprop_id |-> cmds.xprop_id]]

\* --------------------------------------------------- WaylandDetector
\* JSON values.
JStr(v) == [t |-> "str", v |-> v]
JNum(v) == [t |-> "num", v |-> v]
JBool(v) == [t |-> "bool", v |-> v]
JNull == [t |-> "null"]

\* serde_json::Value::get(field).and_then(as_str / as_i64 / as_bool).
JsonAs(json, field, type) ==
    IF field \in DOMAIN json /\ json[field].t = type THEN Some(json[field].v) ELSE None
UnwrapOr(opt, default) == IF opt = None THEN default ELSE opt[1]

\* The JSON texts that occur, with the value serde_json::from_str gives each;
\* any other text fails to parse.
JsonFocused ==
    [class |-> JStr("Editor"), title |-> JStr("main.rs"), pid |-> JNum(4242),
     minimized |-> JBool(FALSE), maximized |-> JBool(TRUE), fullscreen |-> JBool(TRUE),
     workspace |-> JNum(1), monitor |-> JNum(0), urgent |-> JBool(TRUE),
     skip_taskbar |-> JBool(FALSE), app_id |-> JStr("editor.desktop"),
     app_name |-> JStr("Editor"), stable_sequence |-> JNum(7)]
JsonTitleOnly ==
    [class |-> JNull, title |-> JStr("Report.docx - WordProcessor"), pid |-> JNum(4242),
     minimized |-> JBool(FALSE), maximized |-> JBool(FALSE), fullscreen |-> JBool(FALSE),
     workspace |-> JNull, monitor |-> JNum(0), urgent |-> JBool(FALSE),
     skip_taskbar |-> JBool(FALSE), app_id |-> JNull,
     app_name |-> JNull, stable_sequence |-> JNum(8)]
JsonDocs ==
    [t \in {"{class:Editor,title:main.rs,pid:4242,...}",
            "{class:null,title:Report.docx - WordProcessor,pid:4242,...}"} |->
        IF t = "{class:Editor,title:main.rs,pid:4242,...}"
        THEN JsonFocused ELSE JsonTitleOnly]
JsonFromStr(t) == IF t \in DOMAIN JsonDocs THEN Some(JsonDocs[t]) ELSE None

\* The WindowInfo WaylandDetector builds from the parsed answer.
WaylandWindowOf(json, class, title, pid) ==
    [id |-> class, title |-> title, class |-> class, pid |-> Some(pid),
     is_minimized |-> UnwrapOr(JsonAs(json, "minimized", "bool"), FALSE),
     is_maximized |-> UnwrapOr(JsonAs(json, "maximized", "bool"), FALSE),
     is_fullscreen |-> UnwrapOr(JsonAs(json, "fullscreen", "bool"), FALSE),
     workspace |-> JsonAs(json, "workspace", "num"),
     monitor |-> JsonAs(json, "monitor", "num"),
     is_urgent |-> UnwrapOr(JsonAs(json, "urgent", "bool"), FALSE),
     is_skip_taskbar |-> UnwrapOr(JsonAs(json, "skip_taskbar", "bool"), FALSE),
     app_id |-> JsonAs(json, "app_id", "str"),
     app_name |-> JsonAs(json, "app_name", "str"),
     stable_sequence |-> JsonAs(json, "stable_sequence", "num")]

\* WaylandDetector::get_active_window on a shell that answers gdbus as
\* cmds.gdbus says.
WaylandFromGdbus(output) ==
    LET text == Decoded(output)
        json_str == IF text = None THEN None ELSE Nth(Split(text[1], Apos), 1)
        json == IF json_str = None \/ json_str = Some(<<"null">>)
                THEN None ELSE JsonFromStr(Text(json_str[1]))
    IN  IF json = None THEN None
        ELSE LET class == JsonAs(json[1], "class", "str")
                 title == JsonAs(json[1], "title", "str")
                 pid == JsonAs(json[1], "pid", "num")
             IN  IF class # None /\ title # None /\ pid # None
                 THEN Some(WaylandWindowOf(json[1], class[1], title[1], pid[1]))
                 ELSE None

WaylandGetActiveWindow(cmds) ==
    LET by_gdbus == WaylandFromGdbus(cmds.gdbus)
    IN  [result |-> IF by_gdbus = None THEN DetNone ELSE DetSome(by_gdbus[1]),
         ran |-> [gdbus |-> cmds.gdbus, xprop_root |-> NotRun, xprop_id |-> NotRun]]

\* WindowDetector::get_active_window of the given variant.
GetActiveWindow(variant, cmds) ==
    IF variant = "X11" THEN X11GetActiveWindow(cmds) ELSE WaylandGetActiveWindow(cmds)

\* ------------------------------------------------ what a desktop answers
\* Outputs of `gdbus call ... org.gnome.Shell.Eval` to the X11 detector.
GdbusFocused ==
    Exited(TRUE, TRUE, <<"(true, ", Apos, "Editor", Pipe, "main.rs", Pipe, "4242", Apos, ")">>)
GdbusNoFocus == Exited(TRUE, TRUE, <<"(true, ", Apos, Apos, ")">>)
GdbusBadPid ==
    Exited(TRUE, TRUE, <<"(true, ", Apos, "Editor", Pipe, "main.rs", Pipe, "undefined", Apos, ")">>)
GdbusIncomplete == Exited(TRUE, TRUE, <<"(true, ", Apos, "Editor", Pipe, "main.rs", Apos, ")">>)
GdbusUnparsable == Exited(TRUE, TRUE, <<"Error: GDBus.Error">>)

\* Outputs of any command that failed to produce a text.
ExitFailure == Exited(FALSE, TRUE, <<>>)
NotUtf8 == Exited(TRUE, FALSE, <<>>)
ProcessFailures == {SpawnErr, ExitFailure, NotUtf8}

\* Outputs of `xprop -root _NET_ACTIVE_WINDOW`.
XpropRootId ==
    Exited(TRUE, TRUE, <<"_NET_ACTIVE_WINDOW(WINDOW):", Space, "window", Space, "id",
                         Space, "#", Space, "0x3a00007", Newline>>)
XpropRootEmpty == Exited(TRUE, TRUE, <<>>)

\* Outputs of `xprop -id <window>`: both properties, the title only, none.
XpropIdFull ==
    Exited(TRUE, TRUE, <<"WM_NAME(STRING) = ", Quote, "main.rs", Quote, Newline,
                         "WM_CLASS(STRING) = ", Quote, "editor", Quote, ", ",
                         Quote, "Editor", Quote, Newline>>)
XpropIdTitleOnly ==
    Exited(TRUE, TRUE, <<"_NET_WM_NAME(UTF8_STRING) = ", Quote,
                         "Report.docx - WordProcessor", Quote, Newline>>)
XpropIdEmpty == Exited(TRUE, TRUE, <<"_NET_WM_PID(CARDINAL) = 4242", Newline>>)

\* Outputs of `gdbus call ... org.gnome.Shell.Eval` to the Wayland detector.
ShellFocused ==
    Exited(TRUE, TRUE, <<"(true, ", Apos, "{class:Editor,title:main.rs,pid:4242,...}", Apos, ")">>)
ShellTitleOnly ==
    Exited(TRUE, TRUE, <<"(true, ", Apos,
                         "{class:null,title:Report.docx - WordProcessor,pid:4242,...}", Apos, ")">>)
ShellNull == Exited(TRUE, TRUE, <<"(true, ", Apos, "null", Apos, ")">>)
ShellBadJson == Exited(TRUE, TRUE, <<"(true, ", Apos, "{class:", Apos, ")">>)
ShellUnparsable == Exited(TRUE, TRUE, <<"Error: GDBus.Error">>)

\* The desktops a poll can meet: what each command would answer if run.
Desktops(variant) ==
    IF variant = "X11"
    THEN [gdbus : ProcessFailures \cup {GdbusFocused, GdbusNoFocus, GdbusBadPid,
                                        GdbusIncomplete, GdbusUnparsable},
          xprop_root : ProcessFailures \cup {XpropRootId, XpropRootEmpty},
          xprop_id : ProcessFailures \cup {XpropIdFull, XpropIdTitleOnly, XpropIdEmpty}]
    ELSE [gdbus : ProcessFailures \cup {ShellFocused, ShellTitleOnly, ShellNull,
                                        ShellBadJson, ShellUnparsable},
          xprop_root : {NotRun},
          xprop_id : {NotRun}]

\* A poll through the detector: its result and the commands it ran.
DesktopPolls(variant) == {GetActiveWindow(variant, cmds) : cmds \in Desktops(variant)}

\* A poll described by its result alone.
NoCommands == [gdbus |-> NotRun, xprop_root |-> NotRun, xprop_id |-> NotRun]
ResultPolls(variant) ==
    {[result |-> det, ran |-> NoCommands] : det \in DetectorResults(variant)}

\* Values of the WAYLAND_DISPLAY environment variable: unset, empty, set.
WaylandDisplayEnv == {None, Some(""), Some("wayland-0")}

\* ------------------------------------------------------------------ state
VARIABLES
    sys,              \* ProcessTracker.sys: number of refresh_all() performed
    active_apps,      \* ProcessTracker.active_apps: the ledger, key -> AppInfo
    last_update,      \* ProcessTracker.last_update
    current_focused,  \* ProcessTracker.current_focused
    window_detector,  \* ProcessTracker.window_detector: the variant selected
    clock,            \* the host clock read by SystemTime::now()
    last_op,          \* the operation of ProcessTracker that ran last
    call,             \* the last update() call: its inputs and its result
    focused_time,     \* per key, total elapsed of the polls that reported it
    scenario,         \* progress of the Editor/None/Browser scenario
    wayland_display,  \* the environment variable WAYLAND_DISPLAY
    env_at_new,       \* WAYLAND_DISPLAY as ProcessTracker::new() read it
    probe,            \* the last poll: the variant polled, the commands run
    ui_pc,            \* where the UI thread is within a frame
    current_tab,      \* RizeCloneApp.current_tab
    tracker_lock,     \* holders of the guard of Mutex<ProcessTracker>
    focus_lock,       \* holders of the guard of Mutex<FocusMode>
    current_session,  \* FocusMode.current_session
    activities,       \* Calendar.activities: date key -> DailyActivity
    ended,            \* the focus sessions end_session() has ended
    focus_call,       \* the last call of a FocusMode method: op, time
    added             \* per day and name, the total passed to add_activity

trackerVars == <<sys, active_apps, last_update, current_focused, window_detector,
                 last_op, call, focused_time, scenario, probe>>
envVars == <<wayland_display, env_at_new>>
guiVars == <<ui_pc, current_tab, tracker_lock, focus_lock, current_session,
             activities, added, ended, focus_call>>

vars == <<sys, active_apps, last_update, current_focused, window_detector,
          clock, last_op, call, focused_time, scenario, wayland_display,
          env_at_new, probe, ui_pc, current_tab, tracker_lock, focus_lock,
          current_session, activities, added, ended, focus_call>>

\* ------------------------------------------------------ pure helper steps
\* SystemTime::duration_since: Ok(now - earlier), or Err when now < earlier.
DurationSince(now, earlier) ==
    IF now >= earlier THEN [ok |-> TRUE, val |-> now - earlier]
                      ELSE [ok |-> FALSE, val |-> 0]

\* Mutant of ReconcileEntry: an entry that does not match keeps its
\* is_active flag (the flag is only ever set, never cleared).
ReconcileEntry_NoClear(name, info, window_info, elapsed) ==
    IF Some(name) = Some(window_info.class)
    THEN [info EXCEPT !.is_active = TRUE,
                      !.duration = @ + elapsed,
                      !.window_title = window_info.title,
                      !.is_minimized = window_info.is_minimized,
                      !.is_maximized = window_info.is_maximized,
                      !.is_fullscreen = window_info.is_fullscreen,
                      !.workspace = window_info.workspace,
                      !.monitor = window_info.monitor,
                      !.is_urgent = window_info.is_urgent,
                      !.is_skip_taskbar = window_info.is_skip_taskbar]
    ELSE info

\* Mutant of ReconcileEntry: elapsed is added before the is_active test, so
\* every tracked entry accrues it.
ReconcileEntry_AccrueAll(name, info, window_info, elapsed) ==
    IF Some(name) = Some(window_info.class)
    THEN [info EXCEPT !.is_active = TRUE,
                      !.duration = @ + elapsed,
                      !.window_title = window_info.title,
                      !.is_minimized = window_info.is_minimized,
                      !.is_maximized = window_info.is_maximized,
                      !.is_fullscreen = window_info.is_fullscreen,
                      !.workspace = window_info.workspace,
                      !.monitor = window_info.monitor,
                      !.is_urgent = window_info.is_urgent,
                      !.is_skip_taskbar = window_info.is_skip_taskbar]
    ELSE [info EXCEPT !.is_active = FALSE, !.duration = @ + elapsed]

\* Mutant of ReconcileEntry: the matching entry accrues the elapsed time
\* but keeps the title it was created with.
ReconcileEntry_StaleTitle(name, info, window_info, elapsed) ==
    LET is_active == (Some(name) = Some(window_info.class))
    IN  IF is_active
        THEN [info EXCEPT !.is_active = TRUE,
                          !.duration = @ + elapsed,
                          !.is_minimized = window_info.is_minimized,
                          !.is_maximized = window_info.is_maximized,
                          !.is_fullscreen = window_info.is_fullscreen,
                          !.workspace = window_info.workspace,
                          !.monitor = window_info.monitor,
                          !.is_urgent = window_info.is_urgent,
                          !.is_skip_taskbar = window_info.is_skip_taskbar]
        ELSE [info EXCEPT !.is_active = FALSE]

\* Mutant of ReconcileEntry: the matching entry also takes the sample's
\* app_id and stable_sequence.
ReconcileEntry_RefreshIds(name, info, window_info, elapsed) ==
    LET is_active == (Some(name) = Some(window_info.class))
    IN  IF is_active
        THEN [info EXCEPT !.is_active = TRUE,
                          !.duration = @ + elapsed,
                          !.window_title = window_info.title,
                          !.is_minimized = window_info.is_minimized,
                          !.is_maximized = window_info.is_maximized,
                          !.is_fullscreen = window_info.is_fullscreen,
                          !.workspace = window_info.workspace,
                          !.monitor = window_info.monitor,
                          !.is_urgent = window_info.is_urgent,
                          !.is_skip_taskbar = window_info.is_skip_taskbar,
                          !.app_id = window_info.app_id,
                          !.stable_sequence = window_info.stable_sequence]
        ELSE [info EXCEPT !.is_active = FALSE]

\* The body of the loop over active_apps.iter_mut() in update().
ReconcileEntry(name, info, window_info, elapsed) ==
    LET is_active == (Some(name) = Some(window_info.class))
    IN  IF is_active
        THEN [info EXCEPT !.is_active = TRUE,
                          !.duration = @ + elapsed,
                          !.window_title = window_info.title,
                          !.is_minimized = window_info.is_minimized,
                          !.is_maximized = window_info.is_maximized,
                          !.is_fullscreen = window_info.is_fullscreen,
                          !.workspace = window_info.workspace,
                          !.monitor = window_info.monitor,
                          !.is_urgent = window_info.is_urgent,
                          !.is_skip_taskbar = window_info.is_skip_taskbar]
        ELSE [info EXCEPT !.is_active = FALSE]

\* Mutant of NewAppInfo: the entry of a new key is created inactive and is
\* only flagged by the loop of the next poll.
NewAppInfo_Inactive(window_info, now) ==
    [name |-> window_info.class,
     window_title |-> window_info.title,
     duration |-> 0,
     is_active |-> FALSE,
     is_minimized |-> window_info.is_minimized,
     is_maximized |-> window_info.is_maximized,
     is_fullscreen |-> window_info.is_fullscreen,
     workspace |-> window_info.workspace,
     monitor |-> window_info.monitor,
     is_urgent |-> window_info.is_urgent,
     is_skip_taskbar |-> window_info.is_skip_taskbar,
     app_id |-> window_info.app_id,
     stable_sequence |-> window_info.stable_sequence,
     last_updated |-> now]

\* The AppInfo update() builds for a key that is not tracked yet.
NewAppInfo(window_info, now) ==
    [name |-> window_info.class,
     window_title |-> window_info.title,
     duration |-> 0,
     is_active |-> TRUE,
     is_minimized |-> window_info.is_minimized,
     is_maximized |-> window_info.is_maximized,
     is_fullscreen |-> window_info.is_fullscreen,
     workspace |-> window_info.workspace,
     monitor |-> window_info.monitor,
     is_urgent |-> window_info.is_urgent,
     is_skip_taskbar |-> window_info.is_skip_taskbar,
     app_id |-> window_info.app_id,
     stable_sequence |-> window_info.stable_sequence,
     last_updated |-> now]

\* HashMap::insert(key, info).
Insert(apps, key, info) ==
    [k \in (DOMAIN apps) \cup {key} |-> IF k = key THEN info ELSE apps[k]]

\* Mutant of Reconcile: a window whose key is not tracked yet is inserted
\* without the loop over the tracked apps having run.
Reconcile_InsertFirst(apps, window_info, elapsed, now) ==
    IF window_info.class \notin DOMAIN apps
    THEN Insert(apps, window_info.class, NewAppInfo(window_info, now))
    ELSE [k \in DOMAIN apps |-> ReconcileEntry(k, apps[k], window_info, elapsed)]

\* update() on Ok(Some(window_info)): the loop over the tracked apps, then
\* the insertion of the key when it is not tracked yet.
Reconcile(apps, window_info, elapsed, now) ==
    LET looped == [k \in DOMAIN apps |->
                      ReconcileEntry(k, apps[k], window_info, elapsed)]
    IN  IF window_info.class \notin DOMAIN looped
        THEN Insert(looped, window_info.class, NewAppInfo(window_info, now))
        ELSE looped

\* Mutant of UpdateLedger: while no window is detected the entry that is
\* still flagged active keeps accruing the elapsed time.
UpdateLedger_AccrueOnNone(apps, det, elapsed, now) ==
    IF det.tag = "Some"
    THEN Reconcile(apps, det.window, elapsed, now)
    ELSE [k \in DOMAIN apps |->
             IF apps[k].is_active
             THEN [apps[k] EXCEPT !.duration = @ + elapsed]
             ELSE apps[k]]

\* Mutant of UpdateLedger: a detection gap ages out the entries that are not
\* active.
UpdateLedger_AgeOut(apps, det, elapsed, now) ==
    IF det.tag = "Some"
    THEN Reconcile(apps, det.window, elapsed, now)
    ELSE [k \in {j \in DOMAIN apps : apps[j].is_active} |-> apps[k]]

\* The ledger update() leaves behind for a detector result: only
\* Ok(Some(window_info)) passes the `if let`, anything else changes nothing.
UpdateLedger(apps, det, elapsed, now) ==
    IF det.tag = "Some" THEN Reconcile(apps, det.window, elapsed, now)
                        ELSE apps

\* current_focused after update().
UpdateFocused(focused, det) ==
    IF det.tag = "Some" THEN Some(det.window.class) ELSE focused

\* ----------------------------------------------------- history variables
\* The detector was not reached by the call.
DetNotCalled == [tag |-> "NotCalled"]

\* The scenario: class "Editor" on three polls (the first at construction
\* time, the next two TickSecs = 10 s apart), then None, then class
\* "Browser", each TickSecs later.  scenario counts the polls that followed
\* it so far; Off once a poll departed from it.
Off == 0 - 1
Scenario == <<Some("Editor"), Some("Editor"), Some("Editor"), None, Some("Browser")>>
ScenarioLen == Len(Scenario)
ScenarioMatches(step, det, elapsed) ==
    /\ step \in 1..ScenarioLen
    /\ elapsed = (IF step = 1 THEN 0 ELSE TickSecs)
    /\ IF Scenario[step] = None
       THEN det.tag = "None"
       ELSE det.tag = "Some" /\ Some(det.window.class) = Scenario[step]
ScenarioStep(s, det, ok, elapsed) ==
    IF s # Off /\ ok /\ ScenarioMatches(s + 1, det, elapsed) THEN s + 1 ELSE Off

\* ----------------------------------------------------------------- Init
\* ProcessTracker::new(): the detector variant is selected from the
\* environment, the ledger is empty and last_update is the current time.
SelectDetector(display) ==
    IF display # None /\ display[1] # "" THEN "Wayland" ELSE "X11"

\* The keys a ledger can hold: a class, or the empty class of a window
\* whose WM_CLASS could not be read.
Keys == Classes \cup {""}

\* No poll has been made.
NoPoll == [variant |-> "None", ran |-> NoCommands, lock |-> "NotCalled"]

\* main(): the tracker, the focus mode and the calendar are constructed and
\* the application starts on the dashboard.
Init ==
    /\ sys = 0
    /\ active_apps = << >>
    /\ clock = 0
    /\ last_update = clock
    /\ current_focused = None
    /\ wayland_display \in WaylandDisplayEnv
    /\ env_at_new = wayland_display
    /\ window_detector = SelectDetector(wayland_display)
    /\ last_op = "new"
    /\ call = [now |-> 0, before |-> 0, det |-> DetNotCalled, ret |-> "Ok"]
    /\ focused_time = [c \in Keys |-> 0]
    /\ scenario = 0
    /\ probe = NoPoll
    /\ ui_pc = "idle"
    /\ current_tab = "Dashboard"
    /\ tracker_lock = {}
    /\ focus_lock = {}
    /\ current_session = None
    /\ activities = << >>
    /\ ended = {}
    /\ focus_call = [op |-> "new", now |-> clock]
    /\ added = << >>

\* -------------------------------------------------------------- actions
\* The host clock advances, up to max_clock.
TickTo(max_clock) ==
    /\ clock + TickSecs <= max_clock
    /\ clock' = clock + TickSecs
    /\ UNCHANGED <<trackerVars, envVars, guiVars>>

\* The host clock is set back (SystemTime is not monotonic).
ClockBack ==
    /\ clock >= TickSecs
    /\ clock' = clock - TickSecs
    /\ UNCHANGED <<trackerVars, envVars, guiVars>>

\* Mutant of PolledDetector: the variant is selected again from the
\* environment on every poll.
PolledDetector_Reselect(selected, env_now) == SelectDetector(env_now)

\* The detector update() polls: the one stored at construction.
PolledDetector(selected, env_now) == selected

\* The detector variants new() selects from.
Variants == {"X11", "Wayland"}

\* Mutant of LastUpdateAfter: last_update is written before the elapsed
\* time is computed.
LastUpdateAfter_Early(elapsed_ok, before, now) == now

\* last_update after update(): `self.last_update = now` follows the `?`, so
\* it is reached only when duration_since returned Ok.
LastUpdateAfter(elapsed_ok, before, now) == IF elapsed_ok THEN now ELSE before

\* The results of self.window_detector.lock() in update(). The guard is
\* alive only inside update() and nothing panics while it is, so the mutex
\* is never poisoned and lock() returns Ok.
DetectorLock == {"Ok"}

\* The polls made under a result of lock(): `if let Ok(detector)` skips the
\* detector when the lock is poisoned.
PollsUnder(lock, detector_polls) ==
    IF lock = "Ok" THEN detector_polls
                   ELSE {[result |-> DetNotCalled, ran |-> NoCommands]}

\* The body of ProcessTracker::update(), for the first max_polls calls;
\* polls gives, per variant, the polls the detector of that variant can make.
UpdateBody(max_polls, polls) ==
    /\ sys < max_polls
    /\ sys' = sys + 1
    /\ last_op' = "update"
    /\ UNCHANGED window_detector
    /\ LET now == clock
           elapsed == DurationSince(now, last_update)
           variant == PolledDetector(window_detector, wayland_display)
       IN  IF ~elapsed.ok
           THEN \* `?` returns the error before anything is written
                /\ call' = [now |-> now, before |-> last_update,
                            det |-> DetNotCalled, ret |-> "Err"]
                /\ scenario' = ScenarioStep(scenario, DetNotCalled, FALSE, 0)
                /\ probe' = NoPoll
                /\ last_update' = LastUpdateAfter(FALSE, last_update, now)
                /\ UNCHANGED <<active_apps, current_focused, focused_time>>
           ELSE \E lock \in DetectorLock :
                \E poll \in PollsUnder(lock, polls[variant]) :
                LET det == poll.result
                IN  /\ last_update' = LastUpdateAfter(TRUE, last_update, now)
                    /\ active_apps' = UpdateLedger(active_apps, det, elapsed.val, now)
                    /\ current_focused' = UpdateFocused(current_focused, det)
                    /\ call' = [now |-> now, before |-> last_update,
                                det |-> det, ret |-> "Ok"]
                    /\ probe' = [variant |-> IF lock = "Ok" THEN variant ELSE "None",
                                 ran |-> poll.ran, lock |-> lock]
                    /\ focused_time' =
                           IF det.tag = "Some"
                           THEN [focused_time EXCEPT ![det.window.class] = @ + elapsed.val]
                           ELSE focused_time
                    /\ scenario' = ScenarioStep(scenario, det, TRUE, elapsed.val)

\* ProcessTracker::update() called on its own.
UpdateCall(max_polls) ==
    /\ UpdateBody(max_polls, [v \in Variants |-> ResultPolls(v)])
    /\ UNCHANGED <<clock, envVars, guiVars>>

\* Mutant of LedgerAfterRead: the accessor hands the entries out and leaves
\* an empty ledger behind (std::mem::take).
LedgerAfterRead_Take(apps) == << >>

\* The ledger after get_active_apps(): the accessor takes &self and returns
\* a shared reference.
LedgerAfterRead(apps) == apps

\* The body of ProcessTracker::get_active_apps().
GetActiveAppsBody ==
    /\ last_op' = "get_active_apps"
    /\ active_apps' = LedgerAfterRead(active_apps)
    /\ UNCHANGED <<sys, last_update, current_focused, window_detector,
                   call, focused_time, scenario, probe>>

\* ProcessTracker::get_active_apps() called on its own.
GetActiveApps ==
    /\ GetActiveAppsBody
    /\ UNCHANGED <<clock, envVars, guiVars>>

Tick == TickTo(MaxClock)

Update == UpdateCall(MaxPolls)

Next == Tick \/ ClockBack \/ Update \/ GetActiveApps

Spec == Init /\ [][Next]_vars

\* The tracker driven along the scenario only: the clock advances, and every
\* update() is a poll that follows the scenario.
ScenarioTick == TickTo((ScenarioLen - 1) * TickSecs)

ScenarioUpdate == UpdateCall(ScenarioLen) /\ scenario' # Off

ScenarioNext == ScenarioTick \/ ScenarioUpdate \/ GetActiveApps

SpecScenario == Init /\ [][ScenarioNext]_vars

\* The tracker on a desktop: every update() polls the stored detector, which
\* runs its commands against whatever the desktop answers, and the
\* environment variable may be changed between polls.
SetEnv ==
    /\ \E env \in WaylandDisplayEnv \ {wayland_display} : wayland_display' = env
    /\ last_op' = "set_var"
    /\ UNCHANGED <<sys, active_apps, last_update, current_focused,
                   window_detector, clock, call, focused_time, scenario,
                   env_at_new, probe, guiVars>>

DetectUpdate ==
    /\ UpdateBody(MaxPolls, [v \in Variants |-> DesktopPolls(v)])
    /\ UNCHANGED <<clock, envVars, guiVars>>

DetectNext == SetEnv \/ DetectUpdate

SpecDetect == Init /\ [][DetectNext]_vars

\* ------------------------------------------------------------- the GUI
\* The application as main() runs it: one thread, the UI thread of eframe,
\* calls RizeCloneApp::update once per frame; the tracker, the focus mode
\* and the calendar are reached through their mutexes only.
Tabs == {"Dashboard", "Calendar", "Focus", "Settings"}

\* Config::default().default_focus_duration, in minutes.
DefaultFocusDuration == 25

\* Polls made by the frames of the GUI specification.
MaxFrames == 2

\* Mutex::lock() by thread: it returns once no guard is alive, and the
\* caller holds the guard until it is dropped.
LockFree(holders) == holders = {}

\* Mutant of Acquire: the access is made without taking the guard.
Acquire_NoGuard(holders, thread) == holders

Acquire(holders, thread) == holders \cup {thread}

Release(holders, thread) == holders \ {thread}

\* FocusMode::start_session: the playlist is empty, so no music path.
NewFocusSession(now, duration_minutes, music_enabled) ==
    [start_time |-> now, duration |-> duration_minutes * 60,
     music_enabled |-> music_enabled, music_path |-> None]

\* Mutant of StartSession: a start while a session is active is ignored.
StartSession_KeepCurrent(current, now, duration_minutes, music_enabled) ==
    IF current # None THEN current
    ELSE Some(NewFocusSession(now, duration_minutes, music_enabled))

\* FocusMode::start_session: current_session after the call.
StartSession(current, now, duration_minutes, music_enabled) ==
    Some(NewFocusSession(now, duration_minutes, music_enabled))

\* FocusMode::end_session: current_session after the call.
EndSession(current) == None

\* FocusMode::is_session_active.
IsSessionActive(current) == current # None

\* The FocusSessionSummary of a session.
SummaryOf(session) ==
    [start_time |-> session.start_time, duration |-> session.duration,
     music_used |-> session.music_enabled]

\* The key of the calendar for a time: its day, standing for the text
\* "YYYY-MM-DD" (times are seconds since the epoch).
DateKey(t) == t \div (24 * 60 * 60)

\* Calendar::get_activity_for_date.
GetActivityForDate(acts, t) ==
    IF DateKey(t) \in DOMAIN acts THEN Some(acts[DateKey(t)]) ELSE None

\* The DailyActivity that entry(date_key).or_insert(..) yields.
EntryOrInsert(acts, key, date) ==
    IF key \in DOMAIN acts THEN acts[key]
    ELSE [date |-> date, process_durations |-> << >>, focus_sessions |-> << >>]

\* Mutant of AddActivityTo: the delta replaces the total of the name.
AddActivityTo_Overwrite(acts, today, process_name, duration) ==
    LET key == DateKey(today)
        activity == EntryOrInsert(acts, key, today)
    IN  Insert(acts, key,
               [activity EXCEPT !.process_durations =
                    Insert(activity.process_durations, process_name, duration)])

\* Calendar::add_activity at time today: activities after the call.
AddActivityTo(acts, today, process_name, duration) ==
    LET key == DateKey(today)
        activity == EntryOrInsert(acts, key, today)
        total == IF process_name \in DOMAIN activity.process_durations
                 THEN activity.process_durations[process_name] ELSE 0
    IN  Insert(acts, key,
               [activity EXCEPT !.process_durations =
                    Insert(activity.process_durations, process_name, total + duration)])

\* Calendar::add_focus_session: activities after the call.
AddFocusSessionTo(acts, session) ==
    LET key == DateKey(session.start_time)
        activity == EntryOrInsert(acts, key, session.start_time)
    IN  Insert(acts, key,
               [activity EXCEPT !.focus_sessions = Append(@, session)])

\* eframe::App::update, top panel: the tab clicked (or kept) for this frame.
AppUpdateTo(tabs) ==
    /\ ui_pc = "idle"
    /\ \E tab \in tabs : current_tab' = tab
    /\ ui_pc' = "central"
    /\ UNCHANGED <<trackerVars, clock, envVars, tracker_lock, focus_lock,
                   current_session, activities, added, ended, focus_call>>

AppUpdate == AppUpdateTo(Tabs)

\* render_dashboard: self.process_tracker.lock() before tracker.update().
DashLockUpdate ==
    /\ ui_pc = "central" /\ current_tab = "Dashboard"
    /\ LockFree(tracker_lock)
    /\ tracker_lock' = Acquire(tracker_lock, "ui")
    /\ ui_pc' = "dash_update"
    /\ UNCHANGED <<trackerVars, clock, envVars, current_tab, focus_lock,
                   current_session, activities, added, ended, focus_call>>

\* render_dashboard: `let _ = tracker.update();` and the guard is dropped.
DashUpdate ==
    /\ ui_pc = "dash_update"
    /\ UpdateBody(MaxFrames, [v \in Variants |-> ResultPolls(v)])
    /\ tracker_lock' = Release(tracker_lock, "ui")
    /\ ui_pc' = "dash_apps"
    /\ UNCHANGED <<clock, envVars, current_tab, focus_lock, current_session,
                   activities, added, ended, focus_call>>

\* render_dashboard: the "Active Applications" header; its body runs only
\* when the header is open, and starts with self.process_tracker.lock().
DashApps ==
    /\ ui_pc = "dash_apps"
    /\ \/ /\ ui_pc' = "dash_focus"
          /\ UNCHANGED tracker_lock
       \/ /\ LockFree(tracker_lock)
          /\ tracker_lock' = Acquire(tracker_lock, "ui")
          /\ ui_pc' = "dash_read"
    /\ UNCHANGED <<trackerVars, clock, envVars, current_tab, focus_lock,
                   current_session, activities, added, ended, focus_call>>

\* render_dashboard: tracker.get_active_apps(), the rows, guard dropped.
DashRead ==
    /\ ui_pc = "dash_read"
    /\ GetActiveAppsBody
    /\ tracker_lock' = Release(tracker_lock, "ui")
    /\ ui_pc' = "dash_focus"
    /\ UNCHANGED <<clock, envVars, current_tab, focus_lock, current_session,
                   activities, added, ended, focus_call>>

\* render_dashboard: the "Focus Mode" header. Open, it locks the focus mode
\* and shows the session; with no session, a click on "Start Focus Session"
\* locks the same mutex again while the first guard is alive: the thread
\* deadlocks or panics (std::sync::Mutex leaves it open which).
DashFocus ==
    /\ ui_pc = "dash_focus"
    /\ \/ UNCHANGED focus_lock /\ ui_pc' = "idle"
       \/ /\ LockFree(focus_lock)
          /\ current_session = None
          /\ focus_lock' = Acquire(focus_lock, "ui")
          /\ ui_pc' \in {"deadlocked", "panicked"}
    /\ UNCHANGED <<trackerVars, clock, envVars, current_tab, tracker_lock,
                   current_session, activities, added, ended, focus_call>>

\* render_calendar: the calendar is locked and read.
RenderCalendar ==
    /\ ui_pc = "central" /\ current_tab = "Calendar"
    /\ GetActivityForDate(activities, clock) \in {None} \cup {Some(activities[k]) : k \in DOMAIN activities}
    /\ ui_pc' = "idle"
    /\ UNCHANGED <<trackerVars, clock, envVars, current_tab, tracker_lock,
                   focus_lock, current_session, activities, added, ended, focus_call>>

\* render_focus with a session: the remaining time is shown, and a click on
\* "End Session" calls focus.end_session().
RenderFocusActive ==
    /\ ui_pc = "central" /\ current_tab = "Focus"
    /\ LockFree(focus_lock)
    /\ IsSessionActive(current_session)
    /\ \/ UNCHANGED <<current_session, ended, focus_call>>
       \/ /\ current_session' = EndSession(current_session)
          /\ ended' = ended \cup {current_session[1]}
          /\ focus_call' = [op |-> "end_session", now |-> clock]
    /\ ui_pc' = "idle"
    /\ UNCHANGED <<trackerVars, clock, envVars, current_tab, tracker_lock,
                   focus_lock, activities, added>>

\* render_focus without a session: a click on "Start Focus Session" calls
\* focus.start_session(default_focus_duration, music_dir.is_some()).
RenderFocusIdle ==
    /\ ui_pc = "central" /\ current_tab = "Focus"
    /\ LockFree(focus_lock)
    /\ ~IsSessionActive(current_session)
    /\ \/ UNCHANGED <<current_session, focus_call>>
       \/ /\ \E music \in BOOLEAN :
                 current_session' =
                     StartSession(current_session, clock, DefaultFocusDuration, music)
          /\ focus_call' = [op |-> "start_session", now |-> clock]
    /\ ui_pc' = "idle"
    /\ UNCHANGED <<trackerVars, clock, envVars, current_tab, tracker_lock,
                   focus_lock, activities, added, ended>>

\* render_settings.
RenderSettings ==
    /\ ui_pc = "central" /\ current_tab = "Settings"
    /\ ui_pc' = "idle"
    /\ UNCHANGED <<trackerVars, clock, envVars, current_tab, tracker_lock,
                   focus_lock, current_session, activities, added, ended, focus_call>>

GuiNext ==
    \/ AppUpdate
    \/ DashLockUpdate
    \/ DashUpdate
    \/ DashApps
    \/ DashRead
    \/ DashFocus
    \/ RenderCalendar
    \/ RenderFocusActive
    \/ RenderFocusIdle
    \/ RenderSettings

SpecGui == Init /\ [][GuiNext]_vars

\* The frames are weakly fair: eframe keeps calling update.
SpecGuiLive == SpecGui /\ WF_vars(GuiNext)

\* -------------------------------------------------------- the focus mode
\* FocusMode driven through its methods by any caller, while time passes.
FocusStart ==
    /\ \E music \in BOOLEAN :
           current_session' =
               StartSession(current_session, clock, DefaultFocusDuration, music)
    /\ focus_call' = [op |-> "start_session", now |-> clock]
    /\ UNCHANGED <<trackerVars, clock, envVars, ui_pc, current_tab,
                   tracker_lock, focus_lock, activities, added, ended>>

FocusEnd ==
    /\ current_session' = EndSession(current_session)
    /\ ended' = IF IsSessionActive(current_session)
                THEN ended \cup {current_session[1]} ELSE ended
    /\ focus_call' = [op |-> "end_session", now |-> clock]
    /\ UNCHANGED <<trackerVars, clock, envVars, ui_pc, current_tab,
                   tracker_lock, focus_lock, activities, added>>

FocusNext == FocusStart \/ FocusEnd \/ Tick

SpecFocus == Init /\ [][FocusNext]_vars

\* --------------------------------------------------------- the calendar
\* Calendar driven through its methods by any caller, over two days.
Day == 24 * 60 * 60

AddActivity ==
    /\ \E process_name \in Classes, duration \in {TickSecs, 2 * TickSecs} :
          LET pair == <<DateKey(clock), process_name>>
              sum == IF pair \in DOMAIN added THEN added[pair] ELSE 0
          IN  /\ sum + duration <= MaxClock + TickSecs
              /\ activities' = AddActivityTo(activities, clock, process_name, duration)
              /\ added' = Insert(added, pair, sum + duration)
    /\ UNCHANGED <<trackerVars, clock, envVars, ui_pc, current_tab,
                   tracker_lock, focus_lock, current_session, ended,
                   focus_call>>

AddFocusSession ==
    /\ \E music \in BOOLEAN :
          LET session == SummaryOf(NewFocusSession(clock, DefaultFocusDuration, music))
          IN  /\ Len(EntryOrInsert(activities, DateKey(clock), clock).focus_sessions) < 1
              /\ activities' = AddFocusSessionTo(activities, session)
    /\ UNCHANGED <<trackerVars, clock, envVars, ui_pc, current_tab,
                   tracker_lock, focus_lock, current_session, ended,
                   focus_call, added>>

CalendarDay ==
    /\ DateKey(clock) < 1
    /\ clock' = clock + Day
    /\ UNCHANGED <<trackerVars, envVars, guiVars>>

CalendarNext == AddActivity \/ AddFocusSession \/ CalendarDay

SpecCalendar == Init /\ [][CalendarNext]_vars

\* The focus view of the GUI while whole focus periods pass: the user stays
\* off the dashboard.
FocusPeriod == DefaultFocusDuration * 60

TimerFrame == AppUpdateTo(Tabs \ {"Dashboard"})

TimerTick ==
    /\ clock < MaxTicks * FocusPeriod
    /\ clock' = clock + FocusPeriod
    /\ UNCHANGED <<trackerVars, envVars, guiVars>>

TimerNext ==
    \/ TimerFrame
    \/ RenderCalendar
    \/ RenderFocusActive
    \/ RenderFocusIdle
    \/ RenderSettings
    \/ TimerTick

\* The frames and the clock are weakly fair: eframe keeps calling update and
\* time passes; nothing obliges the user to click.
SpecTimer == Init /\ [][TimerNext]_vars /\ WF_vars(TimerNext)

\* ----------------------------------------------------------- typing
AppInfoOK(k, info) ==
    /\ info.name = k
    /\ info.duration \in Nat
    /\ info.is_active \in BOOLEAN

TypeOK ==
    /\ sys \in Nat
    /\ DOMAIN active_apps \subseteq Keys
    /\ \A k \in DOMAIN active_apps : AppInfoOK(k, active_apps[k])
    /\ last_update \in Nat
    /\ clock \in Nat
    /\ current_focused \in {None} \cup {Some(c) : c \in Keys}
    /\ window_detector \in {"X11", "Wayland"}
    /\ last_op \in {"new", "update", "get_active_apps", "set_var"}
    /\ scenario \in {Off} \cup (0..ScenarioLen)
    /\ wayland_display \in WaylandDisplayEnv
    /\ env_at_new \in WaylandDisplayEnv
    /\ probe.variant \in {"None", "X11", "Wayland"}
    /\ ui_pc \in {"idle", "central", "dash_update", "dash_apps", "dash_read",
                  "dash_focus", "deadlocked", "panicked"}
    /\ current_tab \in Tabs
    /\ tracker_lock \subseteq {"ui"}
    /\ focus_lock \subseteq {"ui"}
    /\ current_session = None \/ current_session[1].start_time \in Nat
    /\ DOMAIN activities \subseteq Nat
    /\ \A session \in ended : session.start_time \in Nat
    /\ focus_call.op \in {"new", "start_session", "end_session"}
    /\ focus_call.now \in Nat
    /\ \A pair \in DOMAIN added : added[pair] \in Nat

\* ----------------------------------------------------- claim vocabulary
ActiveKeys == {k \in DOMAIN active_apps : active_apps[k].is_active}

\* The step is an update() call (sys counts them).
IsUpdateStep == sys' # sys

\* The last operation was an update() that returned Ok.
AfterOkUpdate == last_op = "update" /\ call.ret = "Ok"

\* Duration of key k in ledger apps, 0 when k has no entry.
DurationOf(apps, k) == IF k \in DOMAIN apps THEN apps[k].duration ELSE 0

\* ------------------------------------------------------------------ C1
\* C1: after any sequence of update() calls, whatever the detector returned
\* (Some(window), None or an error), at most one ledger entry has
\* is_active = true.
C1_AtMostOneActive == Cardinality(ActiveKeys) <= 1

\* Two entries are tracked, the last update() reported one of them, and
\* exactly that one is active.
C1_Witness ==
    /\ AfterOkUpdate
    /\ call.det.tag = "Some"
    /\ Cardinality(DOMAIN active_apps) = 2
    /\ ActiveKeys = {call.det.window.class}

\* ------------------------------------------------------------------ C2
\* C2: the accumulated duration of every ledger entry equals the sum of the
\* elapsed values over all polls that reported its key as focused, the poll
\* that created the entry included.
C2_DurationIsFocusedSum ==
    \A k \in DOMAIN active_apps : active_apps[k].duration = focused_time[k]

\* ------------------------------------------------------------------ C3
\* C3: an update() that observes a window whose key has no entry leaves the
\* entry it creates with accumulated duration equal to elapsed.
C3_NewEntryGetsElapsed ==
    [][\A k \in Classes :
          (IsUpdateStep /\ k \notin DOMAIN active_apps /\ k \in DOMAIN active_apps')
          => active_apps'[k].duration = call'.now - call'.before]_vars

\* ------------------------------------------------------------------ C4
\* C4: from an empty ledger, after "Editor" on three polls 10 s apart, None
\* once and "Browser" once 10 s later, the ledger holds Editor with 20 s and
\* inactive, Browser with 10 s and active.
C4_ScenarioLedger ==
    scenario = ScenarioLen =>
        /\ {"Editor", "Browser"} \subseteq DOMAIN active_apps
        /\ active_apps["Editor"].duration = 2 * TickSecs
        /\ active_apps["Editor"].is_active = FALSE
        /\ active_apps["Browser"].duration = TickSecs
        /\ active_apps["Browser"].is_active = TRUE

\* ------------------------------------------------------------------ C5
\* C5: once an update() in which the detector returned None has returned,
\* every ledger entry has is_active = false.
C5_NoneClearsActive ==
    (AfterOkUpdate /\ call.det.tag = "None") => ActiveKeys = {}

\* ------------------------------------------------------------------ C6
\* C6: an update() in which the detector returns None leaves the accumulated
\* duration of every ledger entry as it was before the call.
C6_NoneKeepsDurations ==
    [][(IsUpdateStep /\ call'.det.tag = "None")
         => /\ DOMAIN active_apps' = DOMAIN active_apps
            /\ \A k \in DOMAIN active_apps :
                   active_apps'[k].duration = active_apps[k].duration]_vars

\* A None poll that had time to attribute (elapsed > 0) returned while an
\* entry with accumulated time was still flagged active.
C6_Witness ==
    /\ AfterOkUpdate
    /\ call.det.tag = "None"
    /\ call.now > call.before
    /\ \E k \in ActiveKeys : active_apps[k].duration > 0

\* ------------------------------------------------------------------ C7
\* C7: last_update is advanced by every update() that does not fail, and
\* when a None poll at t1 is followed by a poll at t2 that reports key k,
\* k gains exactly t2 - t1 and no other entry gains anything.
C7_GapNotAttributed ==
    [][(IsUpdateStep /\ call'.ret = "Ok")
         => /\ last_update' = call'.now
            /\ (sys > 0 /\ call.ret = "Ok" /\ call.det.tag = "None"
                  /\ call'.det.tag = "Some")
               => LET k == call'.det.window.class
                  IN  /\ DurationOf(active_apps', k) - DurationOf(active_apps, k)
                             = call'.now - call.now
                      /\ \A j \in DOMAIN active_apps \ {k} :
                             DurationOf(active_apps', j) = DurationOf(active_apps, j)]_vars

\* ------------------------------------------------------------------ C8
\* C8: an update() called while the clock reads earlier than last_update
\* treats elapsed as 0, completes the poll and returns Ok.
C8_ClockReversalIsOk ==
    (last_op = "update" /\ call.now < call.before)
        => (call.ret = "Ok" /\ last_update = call.now)

\* ------------------------------------------------------------------ C9
\* C9: across update() calls every entry's accumulated duration never
\* decreases, and it increases in a step only if that step is an update()
\* in which the detector reported that entry's key.
C9_DurationMonotone ==
    [][\A k \in (DOMAIN active_apps) \cap (DOMAIN active_apps') :
          /\ active_apps'[k].duration >= active_apps[k].duration
          /\ active_apps'[k].duration > active_apps[k].duration
                => /\ IsUpdateStep
                   /\ call'.det.tag = "Some"
                   /\ call'.det.window.class = k]_vars

\* The last update() reported a key that was already tracked next to another
\* entry, with elapsed > 0: its duration grew, the other entry's did not.
C9_Witness ==
    /\ AfterOkUpdate
    /\ call.det.tag = "Some"
    /\ call.now > call.before
    /\ Cardinality(DOMAIN active_apps) = 2
    /\ active_apps[call.det.window.class].duration >= call.now - call.before
    /\ active_apps[call.det.window.class].duration > 0

\* ------------------------------------------------------------------ C10
\* C10: the set of ledger keys only grows: no step of the tracker removes
\* the entry of a key.
C10_KeysOnlyGrow ==
    [][DOMAIN active_apps \subseteq DOMAIN active_apps']_vars

\* Both keys are tracked, the older entry went through a later None poll and
\* through a read of the ledger.
C10_Witness ==
    /\ last_op = "get_active_apps"
    /\ Cardinality(DOMAIN active_apps) = 2
    /\ call.det.tag = "None"
    /\ ActiveKeys # {}

\* ------------------------------------------------------------------ C11
\* C11: an update() whose detector result carries a key that has no entry
\* adds exactly one entry, stored under that key with is_active = true; every
\* entry that existed is kept (only its is_active is cleared) and the ledger
\* grows by exactly one.
C11_NewKeyAddsOneEntry ==
    [][(IsUpdateStep /\ call'.det.tag = "Some"
          /\ call'.det.window.class \notin DOMAIN active_apps)
         => LET k == call'.det.window.class
            IN  /\ DOMAIN active_apps' = (DOMAIN active_apps) \cup {k}
                /\ Cardinality(DOMAIN active_apps')
                       = Cardinality(DOMAIN active_apps) + 1
                /\ active_apps'[k].name = k
                /\ active_apps'[k].is_active = TRUE
                /\ \A j \in DOMAIN active_apps :
                       active_apps'[j] = [active_apps[j] EXCEPT !.is_active = FALSE]]_vars

\* The second poll reported a second key: its entry was created by that call
\* next to the entry of the first key.
C11_Witness ==
    /\ AfterOkUpdate
    /\ sys = 2
    /\ call.det.tag = "Some"
    /\ Cardinality(DOMAIN active_apps) = 2
    /\ active_apps[call.det.window.class].last_updated = call.now
    /\ active_apps[call.det.window.class].is_active

\* --------------------------------------------------- reconciliation claims
\* The fields of an entry that mirror the focused window.
Mirror(info) ==
    <<info.window_title, info.is_minimized, info.is_maximized,
      info.is_fullscreen, info.is_urgent, info.is_skip_taskbar,
      info.workspace, info.monitor>>

\* The same fields of a fresh sample.
SampleMirror(window_info) ==
    <<window_info.title, window_info.is_minimized, window_info.is_maximized,
      window_info.is_fullscreen, window_info.is_urgent,
      window_info.is_skip_taskbar, window_info.workspace, window_info.monitor>>

\* C23: after an update() whose detector returned Some(window) with key k,
\* the entry k is active and every other entry is inactive, whether k was
\* tracked before the call or created by it.
C23_ExactlyKeyActive ==
    [][(IsUpdateStep /\ call'.det.tag = "Some")
         => /\ call'.det.window.class \in DOMAIN active_apps'
            /\ \A j \in DOMAIN active_apps' :
                   active_apps'[j].is_active = (j = call'.det.window.class)]_vars

\* The poll created its key while another entry was tracked.
C23_Witness ==
    /\ AfterOkUpdate /\ call.det.tag = "Some"
    /\ active_apps[call.det.window.class].last_updated = call.now
    /\ sys > 1
    /\ \E j \in DOMAIN active_apps :
           j # call.det.window.class /\ ~active_apps[j].is_active

\* C24: when update() observes a window whose key is tracked already, the
\* entry's title and state flags become those of the sample, and every other
\* entry keeps its duration, title and state flags.
C24_MirrorOverwritten ==
    [][(IsUpdateStep /\ call'.det.tag = "Some"
          /\ call'.det.window.class \in DOMAIN active_apps)
         => /\ Mirror(active_apps'[call'.det.window.class])
                  = SampleMirror(call'.det.window)
            /\ \A j \in (DOMAIN active_apps) \ {call'.det.window.class} :
                   /\ active_apps'[j].duration = active_apps[j].duration
                   /\ Mirror(active_apps'[j]) = Mirror(active_apps[j])]_vars

\* A tracked key was observed again while a second entry, with another
\* title, is tracked.
C24_Witness ==
    /\ AfterOkUpdate /\ call.det.tag = "Some"
    /\ active_apps[call.det.window.class].last_updated < call.now
    /\ Mirror(active_apps[call.det.window.class]) = SampleMirror(call.det.window)
    /\ \E j \in DOMAIN active_apps :
           /\ j # call.det.window.class
           /\ active_apps[j].window_title # call.det.window.title

\* C27: an update() that returns Err leaves the ledger, last_update and
\* current_focused as they were; an update() that returns Ok sets last_update
\* to its own time, so the elapsed time a tracked key gains is measured from
\* the last successful poll.
C27_ErrChangesNothing ==
    [][IsUpdateStep
         => IF call'.ret = "Err"
            THEN /\ active_apps' = active_apps
                 /\ last_update' = last_update
                 /\ current_focused' = current_focused
            ELSE /\ last_update' = call'.now
                 /\ (call'.det.tag = "Some"
                       /\ call'.det.window.class \in DOMAIN active_apps)
                      => active_apps'[call'.det.window.class].duration
                           = active_apps[call'.det.window.class].duration
                               + (call'.now - last_update)]_vars

\* An update() has returned Err on a tracker with a non-empty ledger.
C27_Witness ==
    /\ last_op = "update" /\ call.ret = "Err"
    /\ active_apps # << >>
    /\ last_update > call.now

\* C29: no update() changes the name, app_id, stable_sequence or
\* last_updated of a tracked entry, and the name of every entry is the key
\* it is stored under.
C29_IdentityFixed ==
    [][/\ \A k \in DOMAIN active_apps :
              /\ k \in DOMAIN active_apps'
              /\ active_apps'[k].name = active_apps[k].name
              /\ active_apps'[k].app_id = active_apps[k].app_id
              /\ active_apps'[k].stable_sequence = active_apps[k].stable_sequence
              /\ active_apps'[k].last_updated = active_apps[k].last_updated
       /\ \A k \in DOMAIN active_apps' : active_apps'[k].name = k]_vars

\* A tracked key was observed again by a later poll, with a sample whose
\* app_id differs from the one the entry was created with.
C29_Witness ==
    /\ AfterOkUpdate /\ call.det.tag = "Some"
    /\ active_apps[call.det.window.class].last_updated < call.now
    /\ active_apps[call.det.window.class].app_id # call.det.window.app_id

\* ------------------------------------------------------ detection claims
\* The outputs of each command that are internal failures of a poll: the
\* process could not be spawned, exited with a non-zero status, wrote bytes
\* that are not UTF-8, or answered with an unparsable or incomplete text or
\* with 'null'.
FailedOutputs(variant) ==
    IF variant = "X11"
    THEN [gdbus |-> ProcessFailures \cup {GdbusBadPid, GdbusIncomplete, GdbusUnparsable},
          xprop_root |-> ProcessFailures \cup {XpropRootEmpty},
          xprop_id |-> ProcessFailures \cup {XpropIdEmpty}]
    ELSE [gdbus |-> ProcessFailures \cup {ShellNull, ShellBadJson, ShellUnparsable},
          xprop_root |-> {},
          xprop_id |-> {}]

\* The command a poll ended with: the last one of the chain that ran.
LastRan(ran) ==
    IF ran.xprop_id # NotRun THEN "xprop_id"
    ELSE IF ran.xprop_root # NotRun THEN "xprop_root"
    ELSE "gdbus"

\* The poll p ended in an internal failure.
PollFailed(p) ==
    /\ p.variant # "None"
    /\ p.ran[LastRan(p.ran)] \in FailedOutputs(p.variant)[LastRan(p.ran)]

\* The focused window of poll p has the title "Report.docx - WordProcessor"
\* and no class.
PollTitleOnly(p) ==
    \/ p.variant = "X11" /\ p.ran.xprop_id = XpropIdTitleOnly
    \/ p.variant = "Wayland" /\ p.ran.gdbus = ShellTitleOnly

\* C12: get_active_window() never returns an error, and a poll that ends in
\* an internal failure (spawn failure, non-zero exit, non-UTF-8 output,
\* unparsable or incomplete response, 'null') yields Ok(None): update()
\* returns Ok and leaves the ledger unchanged.
C12_FailureYieldsNone ==
    [][IsUpdateStep
         => /\ call'.det.tag # "Err"
            /\ PollFailed(probe')
                 => /\ call'.det = DetNone
                    /\ call'.ret = "Ok"
                    /\ active_apps' = active_apps]_vars

\* C13: a window with an empty class from which no key can be derived (its
\* title is empty too) is discarded: the poll adds no entry and no duration,
\* and no entry of the ledger has the empty string as its key.
C13_NoEmptyKey ==
    [][(IsUpdateStep /\ call'.det.tag = "Some"
          /\ call'.det.window.class = "" /\ call'.det.window.title = "")
         => /\ DOMAIN active_apps' = DOMAIN active_apps
            /\ \A k \in DOMAIN active_apps :
                   active_apps'[k].duration = active_apps[k].duration
            /\ "" \notin DOMAIN active_apps']_vars

\* C14: after a poll whose focused window has the title
\* "Report.docx - WordProcessor" and no class, the window is tracked under
\* the key derived from the title, "report.docx", as the active entry.
C14_TitleOnlyKey ==
    (AfterOkUpdate /\ PollTitleOnly(probe))
        => /\ "report.docx" \in DOMAIN active_apps
           /\ active_apps["report.docx"].is_active

\* ------------------------------------------------------------ GUI claims
\* The UI thread is inside ProcessTracker::update().
InUpdate == ui_pc = "dash_update"

\* The UI thread is reading the ledger through get_active_apps().
InRead == ui_pc = "dash_read"

\* C15: polls are sequential: whoever is inside update() or reads through
\* get_active_apps() holds the guard of the one Mutex<ProcessTracker>, the
\* mutex has at most one holder, and an update and a read are never in
\* progress together.
C15_AccessUnderLock ==
    /\ Cardinality(tracker_lock) <= 1
    /\ (InUpdate \/ InRead) => tracker_lock = {"ui"}
    /\ ~(InUpdate /\ InRead)

\* A read of the ledger is in progress, under the guard, after an update()
\* that ran under the guard and released it.
C15_Witness ==
    /\ InRead /\ tracker_lock = {"ui"}
    /\ AfterOkUpdate /\ active_apps # << >>

\* C16: the ledger changes in update() steps only: get_active_apps(), the
\* dashboard, the calendar and the focus views leave every entry and the key
\* set as they were.
C16_OnlyUpdateMutates ==
    [][active_apps' # active_apps => IsUpdateStep]_vars

\* The dashboard has read a non-empty ledger through get_active_apps().
C16_Witness ==
    /\ last_op = "get_active_apps" /\ ui_pc = "dash_focus"
    /\ active_apps # << >>

\* C17: the UI thread, which renders the dashboard, is never inside
\* update().
C17_UpdateOffUiThread == ~InUpdate

\* C18: update() returns Err exactly when the detector lock is poisoned,
\* and Ok in every other situation.
C18_ErrOnlyOnPoison ==
    last_op = "update" => (call.ret = "Err" <=> probe.lock = "Poisoned")

\* The sessions a focus mode can hold.
FocusSessions ==
    {NewFocusSession(t, DefaultFocusDuration, music) :
        t \in {i * TickSecs : i \in 0..MaxTicks}, music \in BOOLEAN}

\* The calendar holds the summary of session under the session's date.
HasSummary(acts, session) ==
    /\ DateKey(session.start_time) \in DOMAIN acts
    /\ \E i \in DOMAIN acts[DateKey(session.start_time)].focus_sessions :
           acts[DateKey(session.start_time)].focus_sessions[i] = SummaryOf(session)

\* C20: whenever end_session() ends a session, the calendar subsequently
\* holds the FocusSessionSummary of that session under the session's date.
C20_EndedSessionReachesCalendar ==
    \A session \in FocusSessions :
        (session \in ended) ~> HasSummary(activities, session)

\* The gdbus strategy yields a window on this output.
GdbusYields(output) == output = GdbusFocused

\* The xprop strategy yields a window on these outputs: the root property
\* names a window and the properties of that window can be read.
XpropYields(root_output, id_output) ==
    /\ root_output = XpropRootId
    /\ id_output \in {XpropIdFull, XpropIdTitleOnly, XpropIdEmpty}

\* C25: the X11 detector runs gdbus first; it runs xprop -root only when
\* gdbus yielded no window, and xprop -id only after xprop -root named a
\* window; the first strategy that yields a window gives the result, and the
\* result is None when neither does.
C25_X11StrategyOrder ==
    (AfterOkUpdate /\ probe.variant = "X11")
        => LET ran == probe.ran
           IN  /\ ran.gdbus # NotRun
               /\ (ran.xprop_root # NotRun) <=> ~GdbusYields(ran.gdbus)
               /\ (ran.xprop_id # NotRun) => ran.xprop_root = XpropRootId
               /\ GdbusYields(ran.gdbus)
                    => /\ call.det.tag = "Some"
                       /\ call.det.window.pid = Some(4242)
                       /\ call.det.window.id = call.det.window.class
               /\ (~GdbusYields(ran.gdbus) /\ XpropYields(ran.xprop_root, ran.xprop_id))
                    => /\ call.det.tag = "Some"
                       /\ call.det.window.pid = None
                       /\ call.det.window.id = "0x3a00007"
               /\ (~GdbusYields(ran.gdbus) /\ ~XpropYields(ran.xprop_root, ran.xprop_id))
                    => call.det = DetNone

\* gdbus failed and the xprop strategy gave the window.
C25_Witness ==
    /\ AfterOkUpdate /\ probe.variant = "X11"
    /\ probe.ran.gdbus \in ProcessFailures
    /\ probe.ran.xprop_id = XpropIdFull
    /\ call.det.tag = "Some" /\ call.det.window.class = "Editor"

\* C26: a click on "Start Focus Session" in the dashboard completes: the UI
\* thread never locks the focus_mode mutex while it holds that mutex's
\* guard, so it neither deadlocks nor panics.
C26_DashboardStartCompletes == ui_pc \notin {"deadlocked", "panicked"}

\* ------------------------------------------------------ focus mode claims
\* C28: a session is active exactly when the last call of start_session()
\* or end_session() was a start; start_session() installs the session it
\* builds, also over an active one; end_session() without an active session
\* changes nothing.
C28_OneSession ==
    /\ IsSessionActive(current_session) <=> focus_call.op = "start_session"
    /\ [][/\ IsSessionActive(current_session') <=> focus_call'.op = "start_session"
          /\ (focus_call' # focus_call /\ focus_call'.op = "start_session")
               => /\ current_session'[1].start_time = focus_call'.now
                  /\ current_session'[1].duration = DefaultFocusDuration * 60
          /\ (focus_call'.op = "end_session" /\ ~IsSessionActive(current_session))
               => /\ current_session' = current_session
                  /\ ended' = ended]_vars

\* end_session() was called after time had passed, and no call of it has
\* ever found an active session.
C28_Witness ==
    /\ focus_call.op = "end_session" /\ focus_call.now > 0
    /\ ended = {}
    /\ ~IsSessionActive(current_session)

\* The sessions the focus view can start while focus periods pass.
TimerSessions ==
    {NewFocusSession(i * FocusPeriod, DefaultFocusDuration, music) :
        i \in 0..MaxTicks, music \in BOOLEAN}

\* C21: once the time since the start of the current session has reached
\* its duration, the session eventually becomes inactive.
C21_TimerEndsSession ==
    \A session \in TimerSessions :
        (current_session = Some(session)
           /\ clock - session.start_time >= session.duration)
          ~> ~IsSessionActive(current_session)

\* -------------------------------------------------------- calendar claims
\* C22: for every day and name, process_durations[name] of the day's
\* DailyActivity is the sum of the durations add_activity was given for that
\* name on that day, no other name has a total, and the DailyActivity stored
\* under a key is the one of that day.
C22_DayTotals ==
    /\ \A pair \in DOMAIN added :
          /\ pair[1] \in DOMAIN activities
          /\ pair[2] \in DOMAIN activities[pair[1]].process_durations
          /\ activities[pair[1]].process_durations[pair[2]] = added[pair]
    /\ \A key \in DOMAIN activities :
          /\ DateKey(activities[key].date) = key
          /\ GetActivityForDate(activities, activities[key].date) = Some(activities[key])
          /\ \A name \in DOMAIN activities[key].process_durations :
                 <<key, name>> \in DOMAIN added

\* Two days have a DailyActivity, and a name got its total of the second
\* day from more than one call.
C22_Witness ==
    /\ Cardinality(DOMAIN activities) = 2
    /\ \E pair \in DOMAIN added :
          /\ pair[1] = DateKey(clock) /\ pair[1] > 0
          /\ added[pair] > 2 * TickSecs
          /\ activities[pair[1]].process_durations[pair[2]] = added[pair]

\* C19: the detector variant is the one new() selected from WAYLAND_DISPLAY
\* (Wayland when set and non-empty, else X11), and every update() polls that
\* variant, whatever the environment says at the time of the poll.
C19_VariantChosenOnce ==
    /\ window_detector = SelectDetector(env_at_new)
    /\ probe.variant # "None" => probe.variant = window_detector

\* An update() has polled after the environment changed to a value that
\* selects the other variant.
C19_Witness ==
    /\ AfterOkUpdate
    /\ SelectDetector(wayland_display) # SelectDetector(env_at_new)
    /\ probe.variant = window_detector

====
